---- MODULE Spec2Model ----
(***************************************************************************)
(* Model of the Telegram tracking bot src/hw2/bot.py: the global `users`   *)
(* map, the per-user FSM storage (state and data) of the aiogram           *)
(* dispatcher, and every registered handler.                               *)
(*                                                                         *)
(* Conventions.                                                            *)
(*  - A message text is a sequence of one-character strings.  The Cyrillic *)
(*    literals of the source are transliterated to ASCII:                  *)
(*    "avto" (line 199), "beg", "khodba", "silovaya", "velosiped"          *)
(*    (lines 421-424).                                                     *)
(*  - A Python float is an integer number of 1/Scale units, or NaN.  The   *)
(*    texts of the model are chosen so that every product is exact at this *)
(*    scale.  A Python int (age, activity) is an unscaled integer.         *)
(*  - Handlers run as concurrent asyncio tasks (dp.start_polling, line     *)
(*    574, with the dispatcher defaults of line 38).  A handler is atomic  *)
(*    up to an await of a network call (message.answer, edit_text,         *)
(*    get_temperature, get_food_candidates); the FSM storage is the        *)
(*    in-memory default, whose awaits do not suspend.  A handler whose     *)
(*    last statement is a send is complete once the send is issued.        *)
(*  - Log entries carry no timestamp: the sequences keep insertion order.  *)
(***************************************************************************)
EXTENDS Integers, Sequences, FiniteSets, TLC

\* ---------------------------------------------------------------- values

\* Python values are tagged records: None, int, float, NaN (a float), str.
None == [t |-> "None"]
NaN == [t |-> "nan"]
PyInt(n) == [t |-> "int", v |-> n]
PyFloat(x) == [t |-> "float", v |-> x]
PyStr(s) == [t |-> "str", s |-> s]
ValueError == [t |-> "ValueError"]
TypeError == [t |-> "TypeError"]

\* a float is kept as an integer number of 1/Scale units
Scale == 100

IsNone(a) == a.t = "None"
IsNaN(a) == a.t = "nan"
IsNumber(a) == a.t \in {"int", "float", "nan"}
IsError(a) == a.t \in {"ValueError", "TypeError"}

\* the value of an int or a (non-NaN) float in 1/Scale units
Scaled(a) == IF a.t = "int" THEN a.v * Scale ELSE a.v

\* a + b, a - b, a * b, a / b and a // b of Python numbers; an operand that
\* is no number raises TypeError; NaN propagates
Add(a, b) ==
    IF ~IsNumber(a) \/ ~IsNumber(b) THEN TypeError
    ELSE IF IsNaN(a) \/ IsNaN(b) THEN NaN
    ELSE IF a.t = "int" /\ b.t = "int" THEN PyInt(a.v + b.v)
    ELSE PyFloat(Scaled(a) + Scaled(b))

Sub(a, b) ==
    IF ~IsNumber(a) \/ ~IsNumber(b) THEN TypeError
    ELSE IF IsNaN(a) \/ IsNaN(b) THEN NaN
    ELSE IF a.t = "int" /\ b.t = "int" THEN PyInt(a.v - b.v)
    ELSE PyFloat(Scaled(a) - Scaled(b))

Mul(a, b) ==
    IF ~IsNumber(a) \/ ~IsNumber(b) THEN TypeError
    ELSE IF IsNaN(a) \/ IsNaN(b) THEN NaN
    ELSE IF a.t = "int" /\ b.t = "int" THEN PyInt(a.v * b.v)
    ELSE IF a.t = "int" THEN PyFloat(a.v * b.v)
    ELSE IF b.t = "int" THEN PyFloat(a.v * b.v)
    ELSE PyFloat((a.v * b.v) \div Scale)

TrueDiv(a, b) ==
    IF ~IsNumber(a) \/ ~IsNumber(b) THEN TypeError
    ELSE IF IsNaN(a) \/ IsNaN(b) THEN NaN
    ELSE PyFloat((Scaled(a) * Scale) \div Scaled(b))

FloorDiv(a, b) ==
    IF ~IsNumber(a) \/ ~IsNumber(b) THEN TypeError
    ELSE IF IsNaN(a) \/ IsNaN(b) THEN NaN
    ELSE IF a.t = "int" /\ b.t = "int" THEN PyInt(a.v \div b.v)
    ELSE PyFloat((Scaled(a) \div Scaled(b)) * Scale)

\* comparisons of numbers: every comparison with NaN is false
Lt(a, b) == ~IsNaN(a) /\ ~IsNaN(b) /\ Scaled(a) < Scaled(b)
Le(a, b) == ~IsNaN(a) /\ ~IsNaN(b) /\ Scaled(a) <= Scaled(b)
Gt(a, b) == ~IsNaN(a) /\ ~IsNaN(b) /\ Scaled(a) > Scaled(b)

\* int(x) of a float, as the f-strings of the replies use it: NaN raises
ToInt(a) ==
    IF ~IsNumber(a) THEN TypeError
    ELSE IF IsNaN(a) THEN ValueError
    ELSE IF a.t = "int" THEN a
    ELSE PyInt(IF a.v >= 0 THEN a.v \div Scale ELSE 0 - ((0 - a.v) \div Scale))

\* ---------------------------------------------------------------- texts

Digits == {"0", "1", "2", "3", "4", "5", "6", "7", "8", "9"}

DigitVal(c) ==
    CASE c = "0" -> 0 [] c = "1" -> 1 [] c = "2" -> 2 [] c = "3" -> 3
      [] c = "4" -> 4 [] c = "5" -> 5 [] c = "6" -> 6 [] c = "7" -> 7
      [] c = "8" -> 8 [] c = "9" -> 9

AllDigits(s) == Len(s) > 0 /\ \A i \in 1..Len(s) : s[i] \in Digits

RECURSIVE DigitsVal(_)
DigitsVal(s) ==
    IF Len(s) = 0 THEN 0
    ELSE 10 * DigitsVal(SubSeq(s, 1, Len(s) - 1)) + DigitVal(s[Len(s)])

HasSign(s) == Len(s) > 0 /\ s[1] \in {"-", "+"}
Unsigned(s) == IF HasSign(s) THEN Tail(s) ELSE s
Signed(s, v) == IF HasSign(s) /\ s[1] = "-" THEN 0 - v ELSE v

DotAt(s) == IF \E i \in 1..Len(s) : s[i] = "."
            THEN CHOOSE i \in 1..Len(s) : s[i] = "." /\ \A j \in 1..(i-1) : s[j] # "."
            ELSE 0

\* int(text): an optional sign and decimal digits, else ValueError
ParseInt(s) ==
    IF AllDigits(Unsigned(s)) THEN PyInt(Signed(s, DigitsVal(Unsigned(s))))
    ELSE ValueError

\* the fraction digits d1 d2 ... as hundredths (two digits kept)
FracVal(f) ==
    IF Len(f) = 0 THEN 0
    ELSE IF Len(f) = 1 THEN 10 * DigitVal(f[1])
    ELSE 10 * DigitVal(f[1]) + DigitVal(f[2])

\* float(text): "nan", or an optional sign, digits and an optional
\* fraction, else ValueError
ParseFloat(s) ==
    IF Unsigned(s) = <<"n", "a", "n">> THEN NaN
    ELSE LET u == Unsigned(s)
             d == DotAt(u)
             ip == IF d = 0 THEN u ELSE SubSeq(u, 1, d - 1)
             fp == IF d = 0 THEN <<>> ELSE SubSeq(u, d + 1, Len(u))
         IN IF d = 0
            THEN IF AllDigits(u) THEN PyFloat(Signed(s, DigitsVal(u) * Scale)) ELSE ValueError
            ELSE IF (Len(ip) + Len(fp) > 0)
                    /\ (Len(ip) = 0 \/ AllDigits(ip))
                    /\ (Len(fp) = 0 \/ AllDigits(fp))
                 THEN PyFloat(Signed(s, DigitsVal(ip) * Scale + FracVal(fp)))
                 ELSE ValueError

\* text.split(): the words between runs of blanks
RECURSIVE Split(_)
Split(s) ==
    IF Len(s) = 0 THEN <<>>
    ELSE IF s[1] = " " THEN Split(Tail(s))
    ELSE LET n == IF \E i \in 1..Len(s) : s[i] = " "
                  THEN (CHOOSE i \in 1..Len(s) :
                            s[i] = " " /\ \A j \in 1..(i-1) : s[j] # " ") - 1
                  ELSE Len(s)
         IN <<SubSeq(s, 1, n)>> \o Split(SubSeq(s, n + 1, Len(s)))

RECURSIVE Strip(_)
Strip(s) ==
    IF Len(s) = 0 THEN s
    ELSE IF s[1] = " " THEN Strip(Tail(s))
    ELSE IF s[Len(s)] = " " THEN Strip(SubSeq(s, 1, Len(s) - 1))
    ELSE s

\* text.split(maxsplit=1): the first word and the rest after the blanks
SplitOnce(s) ==
    LET w == Split(s)
    IN IF Len(w) = 0 THEN <<>>
       ELSE LET t == Strip(s)
                rest == SubSeq(t, Len(w[1]) + 1, Len(t))
                r == IF Len(rest) > 0 /\ \E i \in 1..Len(rest) : rest[i] # " "
                     THEN SubSeq(rest,
                                 CHOOSE i \in 1..Len(rest) :
                                     rest[i] # " " /\ \A j \in 1..(i-1) : rest[j] = " ",
                                 Len(rest))
                     ELSE <<>>
            IN IF Len(r) = 0 THEN <<w[1]>> ELSE <<w[1], r>>

\* ---------------------------------------------------------------- commands

\* the command names of the Command(...) filters and of set_bot_commands
CMD_START == <<"s", "t", "a", "r", "t">>
CMD_SET_PROFILE == <<"s", "e", "t", "_", "p", "r", "o", "f", "i", "l", "e">>
CMD_LOG_WATER == <<"l", "o", "g", "_", "w", "a", "t", "e", "r">>
CMD_LOG_FOOD == <<"l", "o", "g", "_", "f", "o", "o", "d">>
CMD_LOG_WORKOUT == <<"l", "o", "g", "_", "w", "o", "r", "k", "o", "u", "t">>
CMD_CHECK_PROGRESS == <<"c", "h", "e", "c", "k", "_", "p", "r", "o", "g", "r", "e", "s", "s">>
CMD_SHOW_GRAPH == <<"s", "h", "o", "w", "_", "g", "r", "a", "p", "h">>
CMD_HELP == <<"h", "e", "l", "p">>

AVTO == <<"a", "v", "t", "o">>
CHOOSE_FOOD_ == <<"c", "h", "o", "o", "s", "e", "_", "f", "o", "o", "d", "_">>
CHOOSE_FOOD_MANUAL == <<"c", "h", "o", "o", "s", "e", "_", "f", "o", "o", "d", "_", "m", "a", "n", "u", "a", "l">>

\* "/" + name [+ " " + argument ...]
Slash(name) == <<"/">> \o name
WithArg(text, arg) == text \o <<" ">> \o arg

\* the command of a text, as the Command(...) filters extract it: the first
\* word without its "/", or nothing
CommandOf(text) ==
    LET w == Split(text)
    IN IF Len(w) > 0 /\ w[1][1] = "/" THEN Tail(w[1]) ELSE <<>>

StartsWith(s, p) == Len(s) >= Len(p) /\ SubSeq(s, 1, Len(p)) = p

\* callback.data.replace("choose_food_", "") of a text that starts with it
\* and holds it once
RemovePrefix(s, p) == SubSeq(s, Len(p) + 1, Len(s))

\* ---------------------------------------------------------------- weather client

NoResponse == [t |-> "exception"]
HttpResponse(status, body) == [t |-> "response", status |-> status, body |-> body]
BadJson == [t |-> "invalid"]
JsonObject(main) == [t |-> "object", main |-> main]
\* the "main" member of the payload: absent (None), or a dict with or
\* without "temp"
MainWith(temp) == [t |-> "dict", keys |-> {"temp"}, temp |-> temp]
MainWithout == [t |-> "dict", keys |-> {"humidity"}]
MainEmpty == [t |-> "dict", keys |-> {}]

FALLBACK_STATUS == PyFloat(15 * Scale)
FALLBACK_EXCEPT == PyFloat(20 * Scale)

\* get_temperature(city), given what the weather service answers
get_temperature(resp) ==
    IF resp.t = "exception" THEN FALLBACK_EXCEPT
    ELSE IF resp.status # 200 THEN FALLBACK_STATUS
    ELSE IF resp.body.t = "invalid" THEN FALLBACK_EXCEPT
    ELSE LET main == resp.body.main
         IN IF IsNone(main) \/ main.keys = {} THEN FALLBACK_STATUS
            ELSE IF "temp" \in main.keys THEN main.temp
            ELSE FALLBACK_EXCEPT

\* ---------------------------------------------------------------- catalog client

\* a raw product record: nutriments["energy-kcal_100g"], nutriments
\* ["energy-kcal"] (None when absent) and product_name ("" when absent)
Product(kcal100, kcal, name) ==
    [t |-> "dict", kcal100 |-> kcal100, kcal |-> kcal, product_name |-> name]
NotADict == [t |-> "list"]

\* float(cal) of a JSON number or a JSON string
FloatOf(cal) == IF cal.t = "str" THEN ParseFloat(cal.s) ELSE
                IF cal.t = "int" THEN PyFloat(Scaled(cal)) ELSE cal

Candidate(name, calories) == [name |-> name, calories |-> calories]

\* the loop of lines 87-100 over the products from index i on: the
\* results collected so far, and whether float(cal) raised (the loop is
\* then left through the except clause with the results kept)
RECURSIVE CollectResults(_, _, _)
CollectResults(products, i, results) ==
    IF i > Len(products) THEN results
    ELSE LET prod == products[i]
         IN IF prod.t # "dict" THEN CollectResults(products, i + 1, results)
            ELSE LET cal == IF ~IsNone(prod.kcal100) THEN prod.kcal100 ELSE prod.kcal
                     product_name == Strip(prod.product_name)
                 IN IF IsNone(cal) THEN CollectResults(products, i + 1, results)
                    ELSE IF Len(product_name) = 0
                         THEN CollectResults(products, i + 1, results)
                    ELSE IF IsError(FloatOf(cal)) THEN results
                    ELSE CollectResults(products, i + 1,
                             Append(results, Candidate(product_name, FloatOf(cal))))

\* the similarity score of process.extract (an external scorer): the
\* share of the query's characters that occur in the name, 0..100
Score(query, name) ==
    IF Len(query) = 0 THEN 0
    ELSE (100 * Cardinality({i \in 1..Len(query) :
                                \E j \in 1..Len(name) : name[j] = query[i]}))
         \div Len(query)

\* the items ordered by descending score, ties in input order
RECURSIVE SortByScore(_, _)
SortByScore(query, items) ==
    IF Len(items) = 0 THEN <<>>
    ELSE LET best == CHOOSE i \in 1..Len(items) :
                        /\ \A j \in 1..Len(items) :
                              Score(query, items[j].name) <= Score(query, items[i].name)
                        /\ \A j \in 1..(i - 1) :
                              Score(query, items[j].name) < Score(query, items[i].name)
             rest == [k \in 1..(Len(items) - 1) |->
                        IF k < best THEN items[k] ELSE items[k + 1]]
         IN <<items[best]>> \o SortByScore(query, rest)

FUZZY_LIMIT == 5

\* get_food_candidates(food_name), given what the catalog answers
get_food_candidates(food_name, resp) ==
    LET results == IF resp.t = "exception" THEN <<>>
                   ELSE CollectResults(resp.products, 1, <<>>)
        ranked == SortByScore(food_name, results)
    IN IF Len(results) = 0 THEN <<>>
       ELSE SubSeq(ranked, 1, IF Len(ranked) < FUZZY_LIMIT THEN Len(ranked) ELSE FUZZY_LIMIT)

\* ---------------------------------------------------------------- state

Users == {1, 2}

\* the bounds of the model: handler invocations suspended at the same time,
\* and log entries per user between two profile commits
MaxInFlight == 2
MaxLogs == 2

VARIABLES
    users,      \* the global users map (line 19): user id -> profile, or None
    fsmState,   \* FSM storage: user id -> state name, or None
    fsmData,    \* FSM storage: user id -> the data dict of the session
    tasks,      \* the handler invocations suspended at an await
    out,        \* the messages sent by the latest step
    last,       \* the latest step: whose update, which handler, which part
    inputs      \* what each user sends and is answered (fixed for a behaviour)

vars == <<users, fsmState, fsmData, tasks, out, last, inputs>>

NoState == "None"
ProfileStates == {"weight", "height", "age", "activity", "city", "calorie_goal"}
FoodLogStates == {"waiting_for_product_choice", "waiting_for_manual_cal",
                  "waiting_for_grams"}

DataKeys == {"weight", "height", "age", "activity", "city",
             "food_cal_per_100g", "food_name", "candidates_dict"}

\* the empty data dict: data.get(key) is None for every key
EmptyData == [k \in DataKeys |-> None]

\* a message sent to a user
Msg(u, kind) == [to |-> u, kind |-> kind]

\* ---------------------------------------------------------------- inputs

GARBAGE == <<"a", "b", "c">>
CITY_X == <<"O", "m", "s", "k">>
FOOD_MILK == <<"m", "i", "l", "k">>

\* what the weather service may answer a request
WeatherResponses ==
    {NoResponse,
     HttpResponse(404, BadJson),
     HttpResponse(200, BadJson),
     HttpResponse(200, JsonObject(None)),
     HttpResponse(200, JsonObject(MainEmpty)),
     HttpResponse(200, JsonObject(MainWithout)),
     HttpResponse(200, JsonObject(MainWith(PyFloat(30 * Scale))))}

CatalogResponse(products) == [t |-> "response", products |-> products]

\* what the catalog service may answer a request
CatalogResponses ==
    {NoResponse,
     CatalogResponse(<<NotADict, Product(None, None, <<"m", "i", "l", "k">>),
                       Product(PyFloat(52 * Scale), None, <<" ">>)>>),
     CatalogResponse(<<Product(PyFloat(52 * Scale), None, <<"m", "i", "l", "k">>)>>),
     CatalogResponse(<<Product(None, PyInt(0), <<"w", "a", "t", "e", "r">>),
                       Product(PyStr(<<"5", "2">>), PyInt(7), <<" ", "m", "i", "l", "k", " ">>)>>),
     CatalogResponse(<<Product(PyFloat(52 * Scale), None, <<"m", "i", "l", "k">>),
                       Product(PyStr(<<"a", "b", "c">>), None, <<"j", "u", "n", "k">>),
                       Product(PyInt(10), None, <<"t", "e", "a">>)>>)}

\* The inputs of a behaviour, per user: the answers typed to the prompts,
\* the arguments given to the commands, the other commands and texts sent,
\* the buttons pressed, whether a user with a profile sets it up again,
\* what the weather and the catalog services answer, and how many of the
\* user's handler invocations are suspended at a time, before the user has
\* a profile (setup_inflight) and after (inflight).
Typical ==
    [weight |-> {<<"7", "0">>}, height |-> {<<"1", "7", "5">>}, age |-> {<<"2", "5">>}, activity |-> {<<"6", "0">>},
     city |-> {CITY_X}, goal |-> {AVTO, <<"2", "0", "0", "0">>},
     water |-> {}, food |-> {}, manual |-> {}, grams |-> {}, workout |-> {},
     commands |-> {Slash(CMD_START), Slash(CMD_SET_PROFILE), Slash(CMD_HELP)},
     other |-> {GARBAGE}, buttons |-> {},
     resetup |-> TRUE, weather |-> WeatherResponses, catalog |-> {}, setup_inflight |-> 1, inflight |-> 1]

\* answers outside the ranges of the profile fields
OutOfRange ==
    [Typical EXCEPT !.weight = {<<"-", "7", "0">>}, !.height = {<<"0">>}, !.age = {<<"-", "5">>},
                    !.activity = {<<"-", "4", "5">>}, !.goal = {<<"-", "1", "0", "0">>, <<"0">>},
                    !.commands = {Slash(CMD_SET_PROFILE), Slash(CMD_CHECK_PROGRESS)},
                    !.weather = {HttpResponse(404, BadJson)}]

\* answers that are numbers of the wrong kind for the field
Fractional ==
    [Typical EXCEPT !.weight = {<<"7", "0", ".", "5">>}, !.height = {<<"1", "8", "0">>}, !.age = {<<"2", "5", ".", "5">>, <<"3", "0">>},
                    !.activity = {<<"6", "0", ".", "5">>}, !.goal = {},
                    !.commands = {Slash(CMD_SET_PROFILE)}]

\* answers that parse as the float NaN
NotANumber ==
    [Typical EXCEPT !.weight = {<<"7", "0", ".", "5">>}, !.height = {<<"1", "8", "0">>}, !.age = {<<"3", "0">>},
                    !.activity = {<<"2", "9">>}, !.goal = {AVTO, <<"n", "a", "n">>},
                    !.commands = {Slash(CMD_SET_PROFILE)},
                    !.weather = {NoResponse}]

\* a user with a profile who logs water
Drinker ==
    [Typical EXCEPT !.resetup = FALSE, !.goal = {AVTO}, !.water = {<<"5", "0", "0">>, <<"-", "2", "0", "0">>, <<"4", "0", "0", "0">>},
                    !.commands = {Slash(CMD_SET_PROFILE), Slash(CMD_LOG_WATER),
                                  WithArg(Slash(CMD_LOG_WATER), GARBAGE),
                                  Slash(CMD_CHECK_PROGRESS)},
                    !.other = {},
                    !.weather = {HttpResponse(200, JsonObject(MainWith(PyFloat(30 * Scale))))}]

\* a user with a profile who logs food
Eater ==
    [Typical EXCEPT !.resetup = FALSE, !.goal = {AVTO}, !.food = {FOOD_MILK},
                    !.manual = {<<"8", "0">>, <<"-", "8", "0">>}, !.grams = {<<"1", "5", "0">>, <<"0">>},
                    !.commands = {Slash(CMD_SET_PROFILE), Slash(CMD_LOG_FOOD)},
                    !.buttons = {CHOOSE_FOOD_MANUAL, CHOOSE_FOOD_ \o <<"1">>,
                                 CHOOSE_FOOD_ \o <<"2">>, CHOOSE_FOOD_ \o <<"9">>},
                    !.weather = {HttpResponse(200, JsonObject(MainEmpty))},
                    !.catalog = CatalogResponses]

\* a user with a profile who logs workouts
Athlete ==
    [Typical EXCEPT !.resetup = FALSE, !.goal = {<<"2", "0", "0", "0">>},
                    !.workout = {<<<<"b", "e", "g">>, <<"4", "5">>>>, <<<<"b", "e", "g">>, <<"-", "4", "5">>>>, <<<<"p", "l", "a", "v", "a", "n", "i", "e">>, <<"3", "0">>>>},
                    !.commands = {Slash(CMD_SET_PROFILE), Slash(CMD_LOG_WORKOUT),
                                  WithArg(WithArg(Slash(CMD_LOG_WORKOUT), <<"b", "e", "g">>), GARBAGE),
                                  Slash(CMD_CHECK_PROGRESS), Slash(CMD_SHOW_GRAPH)},
                    !.other = {},
                    !.weather = {HttpResponse(200, JsonObject(MainWithout))}]

\* a user with a profile who logs food and does not wait for the replies
Hasty ==
    [Typical EXCEPT !.resetup = FALSE, !.goal = {AVTO}, !.food = {FOOD_MILK},
                    !.grams = {<<"1", "5", "0">>},
                    !.commands = {Slash(CMD_SET_PROFILE)},
                    !.other = {},
                    !.buttons = {CHOOSE_FOOD_ \o <<"1">>, <<"o", "t", "h", "e", "r">>},
                    !.weather = {HttpResponse(200, JsonObject(MainEmpty))},
                    !.catalog = {CatalogResponse(<<Product(PyFloat(52 * Scale), None, <<"m", "i", "l", "k">>)>>)},
                    !.inflight = MaxInFlight]

\* a user with a profile who types the calorie density of a food not found
\* in the catalog
Careless ==
    [Typical EXCEPT !.resetup = FALSE, !.goal = {AVTO}, !.food = {FOOD_MILK},
                    !.manual = {<<"n", "a", "n">>, <<"0">>}, !.grams = {<<"1", "5", "0">>},
                    !.commands = {Slash(CMD_SET_PROFILE)},
                    !.other = {},
                    !.weather = {NoResponse},
                    !.catalog = {NoResponse}]

\* a user who sets up the profile without waiting for the replies
Impatient ==
    [Typical EXCEPT !.goal = {AVTO}, !.commands = {Slash(CMD_SET_PROFILE)},
                    !.other = {}, !.resetup = FALSE,
                    !.weather = {HttpResponse(200, JsonObject(MainWith(PyFloat(30 * Scale))))},
                    !.setup_inflight = MaxInFlight, !.inflight = MaxInFlight]

\* a user who never sets up a profile
Stranger ==
    [Typical EXCEPT !.water = {<<"5", "0", "0">>}, !.food = {FOOD_MILK},
                    !.workout = {<<<<"b", "e", "g">>, <<"4", "5">>>>},
                    !.commands = {Slash(CMD_START), Slash(CMD_HELP), Slash(CMD_LOG_WATER),
                                  Slash(CMD_LOG_FOOD), Slash(CMD_LOG_WORKOUT),
                                  Slash(CMD_CHECK_PROGRESS), Slash(CMD_SHOW_GRAPH)},
                    !.buttons = {CHOOSE_FOOD_MANUAL}]

\* a user who only starts the profile setup
Beginner ==
    [Typical EXCEPT !.height = {}, !.commands = {Slash(CMD_SET_PROFILE), Slash(CMD_START)},
                    !.other = {}]

\* a user who sets up a profile and logs water while another user does
\* the same
Neighbour ==
    [Typical EXCEPT !.goal = {AVTO}, !.water = {<<"5", "0", "0">>},
                    !.commands = {Slash(CMD_SET_PROFILE)}, !.other = {},
                    !.resetup = FALSE,
                    !.weather = {HttpResponse(200, JsonObject(MainWith(PyFloat(30 * Scale))))}]

\* a user who sends nothing
Silent ==
    [weight |-> {}, height |-> {}, age |-> {}, activity |-> {},
     city |-> {}, goal |-> {}, water |-> {}, food |-> {}, manual |-> {}, grams |-> {},
     workout |-> {}, commands |-> {}, other |-> {}, buttons |-> {},
     resetup |-> FALSE, weather |-> {}, catalog |-> {}, setup_inflight |-> 0, inflight |-> 0]

Personas == {Typical, OutOfRange, Fractional, NotANumber, Drinker, Eater, Athlete,
             Stranger, Hasty, Careless, Impatient}

\* the behaviours explored: one user alone, or two users side by side
Scenarios ==
    {[u \in Users |-> IF u = 1 THEN p ELSE Silent] : p \in Personas}
    \cup {[u \in Users |-> Beginner]}
    \cup {[u \in Users |-> Neighbour]}

\* ---------------------------------------------------------------- events

\* what the prompt of a state asks for
AnswersTo(u, state) ==
    CASE state = "weight" -> inputs[u].weight
      [] state = "height" -> inputs[u].height
      [] state = "age" -> inputs[u].age
      [] state = "activity" -> inputs[u].activity
      [] state = "city" -> inputs[u].city
      [] state = "calorie_goal" -> inputs[u].goal
      [] state = "waiting_for_manual_cal" -> inputs[u].manual
      [] state = "waiting_for_grams" -> inputs[u].grams
      [] OTHER -> {}

\* the command texts of a persona
CommandTextsOf(p) ==
    p.commands
    \cup {WithArg(Slash(CMD_LOG_WATER), a) : a \in p.water}
    \cup {WithArg(Slash(CMD_LOG_FOOD), a) : a \in p.food}
    \cup {WithArg(WithArg(Slash(CMD_LOG_WORKOUT), w[1]), w[2]) : w \in p.workout}

\* the command texts a user sends
CommandTexts(u) ==
    {c \in CommandTextsOf(inputs[u]) :
        c = Slash(CMD_SET_PROFILE) => (inputs[u].resetup \/ users[u] = None)}

\* the text messages a user may send now: a command, an answer to the
\* prompt of the current state, or something else
TextsOf(u) == CommandTexts(u) \cup inputs[u].other \cup AnswersTo(u, fsmState[u])

\* the callback data of the buttons a user may press
ButtonsOf(u) == inputs[u].buttons

\* every text message of the behaviours explored
Vocabulary ==
    UNION {CommandTextsOf(p) \cup p.other \cup p.weight \cup p.height \cup p.age
           \cup p.activity \cup p.city \cup p.goal \cup p.manual \cup p.grams :
           p \in Personas \cup {Beginner, Neighbour, Silent}}

\* the command of each of them
Commands == [text \in Vocabulary |-> CommandOf(text)]

\* ---------------------------------------------------------------- dispatch

\* The handler the dispatcher picks for a text message: the first
\* registered handler (in the order of the file) whose filter passes.
RouteMessage(state, text) ==
    LET command == Commands[text]
    IN IF command = CMD_START THEN "cmd_start"
       ELSE IF command = CMD_SET_PROFILE THEN "set_profile"
       ELSE IF state = "weight" THEN "process_weight"
       ELSE IF state = "height" THEN "process_height"
       ELSE IF state = "age" THEN "process_age"
       ELSE IF state = "activity" THEN "process_activity"
       ELSE IF state = "city" THEN "process_city"
       ELSE IF state = "calorie_goal" THEN "process_calorie_goal"
       ELSE IF command = CMD_LOG_WATER THEN "log_water"
       ELSE IF command = CMD_LOG_FOOD THEN "log_food_start"
       ELSE IF state = "waiting_for_manual_cal" THEN "set_manual_calories"
       ELSE IF state = "waiting_for_grams" THEN "log_food_grams"
       ELSE IF command = CMD_LOG_WORKOUT THEN "log_workout"
       ELSE IF command = CMD_CHECK_PROGRESS THEN "check_progress"
       ELSE IF command = CMD_SHOW_GRAPH THEN "show_graph"
       ELSE "unhandled"

\* The handler for a button press: the only callback_query handler.
RouteCallback(state) ==
    IF state = "waiting_for_product_choice" THEN "choose_food_callback"
    ELSE "unhandled"

\* ---------------------------------------------------------------- FSM storage

\* state.set_state, state.update_data and state.clear as next-state values
SetState(u, s) == [fsmState EXCEPT ![u] = s]
UpdateData(u, key, val) == [fsmData EXCEPT ![u][key] = val]
ClearState(u) == [fsmState EXCEPT ![u] = NoState]

\* state.clear() of a storage that keeps one data dict for all users
ClearData_all(u) == [v \in Users |-> EmptyData]

ClearData(u) == [fsmData EXCEPT ![u] = EmptyData]

\* ---------------------------------------------------------------- tasks

\* a handler invocation suspended at an await, with its local variables
Task(u, handler, pc, loc) == [user |-> u, handler |-> handler, pc |-> pc, loc |-> loc]
NoLocals == [t |-> "None"]

TasksOf(u) == {i \in DOMAIN tasks : tasks[i].user = u}
CanSuspend(u) ==
    Cardinality(TasksOf(u)) < IF users[u] = None THEN inputs[u].setup_inflight
                              ELSE inputs[u].inflight
Suspend(task) == Append(tasks, task)
Remove(i) == [k \in 1..(Len(tasks) - 1) |-> IF k < i THEN tasks[k] ELSE tasks[k + 1]]
Replace(i, task) == [tasks EXCEPT ![i] = task]
\* the latest step: the first part of a handler, run when the update
\* arrives, or a later part, run when an await returns; chosen keeps, per
\* user, the calorie density selected or entered since the user's latest
\* /log_food <name> (None when there is none)
Update(u, handler, input) ==
    [user |-> u, handler |-> handler, part |-> "update", input |-> input,
     loc |-> NoLocals, resp |-> None, chosen |-> last.chosen]
Resume(i) ==
    [user |-> tasks[i].user, handler |-> tasks[i].handler, part |-> tasks[i].pc,
     input |-> <<>>, loc |-> tasks[i].loc, resp |-> None, chosen |-> last.chosen]
\* the step in which user u starts a food flow (density None) or selects or
\* enters a density
Select(step, u, density) == [step EXCEPT !.chosen[u] = density]
\* the step that runs when an external service has answered resp
ResumeWith(i, resp) == [Resume(i) EXCEPT !.resp = resp]
NoStep ==
    [user |-> 0, handler |-> "None", part |-> "None", input |-> <<>>,
     loc |-> NoLocals, resp |-> None, chosen |-> [u \in Users |-> None]]

Suspended(i, handler, pc) ==
    i \in 1..Len(tasks) /\ tasks[i].handler = handler /\ tasks[i].pc = pc

\* ---------------------------------------------------------------- profile setup

\* cmd_start (lines 136-141)
cmd_start(u) ==
    \E text \in TextsOf(u) :
        /\ RouteMessage(fsmState[u], text) = "cmd_start"
        /\ last' = Update(u, "cmd_start", text)
        /\ out' = <<Msg(u, "greeting")>>
        /\ UNCHANGED <<users, fsmState, fsmData, tasks, inputs>>

\* set_profile (lines 143-146): the prompt is sent, then the state is set
set_profile(u) ==
    \E text \in TextsOf(u) :
        /\ RouteMessage(fsmState[u], text) = "set_profile"
        /\ last' = Update(u, "set_profile", text)
        /\ CanSuspend(u)
        /\ out' = <<Msg(u, "ask_weight")>>
        /\ tasks' = Suspend(Task(u, "set_profile", "answer", NoLocals))
        /\ UNCHANGED <<users, fsmState, fsmData, inputs>>

set_profile_sent(i) ==
    /\ Suspended(i, "set_profile", "answer")
    /\ last' = Resume(i)
    /\ fsmState' = SetState(tasks[i].user, "weight")
    /\ tasks' = Remove(i)
    /\ out' = <<>>
    /\ UNCHANGED <<users, fsmData, inputs>>

\* process_weight .. process_activity with the prompt and set_state moved
\* out of the try block, after the except clause without its return
CollectNumber_fallthrough(u, handler, parsed, key, prompt, error, next) ==
    IF IsError(parsed)
    THEN /\ CanSuspend(u)
         /\ out' = <<Msg(u, error), Msg(u, prompt)>>
         /\ tasks' = Suspend(Task(u, handler, "answer", [next |-> next]))
         /\ UNCHANGED <<users, fsmState, fsmData, inputs>>
    ELSE /\ CanSuspend(u)
         /\ fsmData' = UpdateData(u, key, parsed)
         /\ out' = <<Msg(u, prompt)>>
         /\ tasks' = Suspend(Task(u, handler, "answer", [next |-> next]))
         /\ UNCHANGED <<users, fsmState, inputs>>

\* The common shape of process_weight .. process_activity: parse the text;
\* on ValueError send the error and return; else update_data, send the
\* next prompt and (when the send returns) set the next state.
CollectNumber(u, handler, parsed, key, prompt, error, next) ==
    IF IsError(parsed)
    THEN /\ out' = <<Msg(u, error)>>
         /\ UNCHANGED <<users, fsmState, fsmData, tasks, inputs>>
    ELSE /\ CanSuspend(u)
         /\ fsmData' = UpdateData(u, key, parsed)
         /\ out' = <<Msg(u, prompt)>>
         /\ tasks' = Suspend(Task(u, handler, "answer", [next |-> next]))
         /\ UNCHANGED <<users, fsmState, inputs>>

\* process_weight (lines 148-156)
process_weight(u) ==
    \E text \in TextsOf(u) :
        /\ RouteMessage(fsmState[u], text) = "process_weight"
        /\ last' = Update(u, "process_weight", text)
        /\ CollectNumber(u, "process_weight", ParseFloat(text), "weight",
                         "ask_height", "error_weight", "height")

\* process_height (lines 158-166)
process_height(u) ==
    \E text \in TextsOf(u) :
        /\ RouteMessage(fsmState[u], text) = "process_height"
        /\ last' = Update(u, "process_height", text)
        /\ CollectNumber(u, "process_height", ParseFloat(text), "height",
                         "ask_age", "error_height", "age")

\* process_age (lines 168-176)
process_age(u) ==
    \E text \in TextsOf(u) :
        /\ RouteMessage(fsmState[u], text) = "process_age"
        /\ last' = Update(u, "process_age", text)
        /\ CollectNumber(u, "process_age", ParseInt(text), "age",
                         "ask_activity", "error_age", "activity")

\* process_activity (lines 178-186)
process_activity(u) ==
    \E text \in TextsOf(u) :
        /\ RouteMessage(fsmState[u], text) = "process_activity"
        /\ last' = Update(u, "process_activity", text)
        /\ CollectNumber(u, "process_activity", ParseInt(text), "activity",
                         "ask_city", "error_activity", "city")

\* process_city (lines 188-193): any text is stored
process_city(u) ==
    \E text \in TextsOf(u) :
        /\ RouteMessage(fsmState[u], text) = "process_city"
        /\ last' = Update(u, "process_city", text)
        /\ CanSuspend(u)
        /\ fsmData' = UpdateData(u, "city", PyStr(text))
        /\ out' = <<Msg(u, "ask_calorie_goal")>>
        /\ tasks' = Suspend(Task(u, "process_city", "answer", [next |-> "calorie_goal"]))
        /\ UNCHANGED <<users, fsmState, inputs>>

\* the set_state after the prompt of process_weight .. process_city
process_field_sent(i) ==
    /\ i \in 1..Len(tasks)
    /\ tasks[i].handler \in {"process_weight", "process_height", "process_age",
                             "process_activity", "process_city"}
    /\ tasks[i].pc = "answer"
    /\ last' = Resume(i)
    /\ fsmState' = SetState(tasks[i].user, tasks[i].loc.next)
    /\ tasks' = Remove(i)
    /\ out' = <<>>
    /\ UNCHANGED <<users, fsmData, inputs>>

\* lines 218-221 with / written for //
WaterGoal_truediv(weight, activity, temp) ==
    LET base == Add(Mul(weight, PyInt(30)), Mul(TrueDiv(activity, PyInt(30)), PyInt(500)))
    IN IF IsError(base) THEN base
       ELSE IF Gt(temp, PyInt(25)) THEN Add(base, PyInt(500)) ELSE base

\* lines 218-221
WaterGoal(weight, activity, temp) ==
    LET base == Add(Mul(weight, PyInt(30)), Mul(FloorDiv(activity, PyInt(30)), PyInt(500)))
    IN IF IsError(base) THEN base
       ELSE IF Gt(temp, PyInt(25)) THEN Add(base, PyInt(500)) ELSE base

\* 6.25 as a float
C_6_25 == PyFloat(625)

\* lines 225-227
AutoCalorieGoal(weight, height, age, activity) ==
    LET base_calories == Sub(Add(Mul(PyInt(10), weight), Mul(C_6_25, height)),
                             Mul(PyInt(5), age))
        activity_bonus == Mul(FloorDiv(activity, PyInt(30)), PyInt(200))
    IN Add(base_calories, activity_bonus)

\* lines 230-245 with the calorie goal left out
NewProfile_nogoal(data, temp, water_goal, calorie_goal) ==
    [weight |-> data.weight, height |-> data.height, age |-> data.age,
     activity |-> data.activity, city |-> data.city, temp |-> temp,
     water_goal |-> water_goal, calorie_goal |-> None,
     logged_water |-> PyInt(0), logged_calories |-> PyInt(0),
     burned_calories |-> PyInt(0),
     water_logs |-> <<>>, food_logs |-> <<>>, workout_logs |-> <<>>]

\* the dict assigned to users[user_id] (lines 230-245)
NewProfile(data, temp, water_goal, calorie_goal) ==
    [weight |-> data.weight, height |-> data.height, age |-> data.age,
     activity |-> data.activity, city |-> data.city, temp |-> temp,
     water_goal |-> water_goal, calorie_goal |-> calorie_goal,
     logged_water |-> PyInt(0), logged_calories |-> PyInt(0),
     burned_calories |-> PyInt(0),
     water_logs |-> <<>>, food_logs |-> <<>>, workout_logs |-> <<>>]

\* process_calorie_goal (lines 195-253), up to the weather request: the
\* data dict is read, the text is the keyword or parses as a float, else
\* the error is sent
process_calorie_goal(u) ==
    \E text \in TextsOf(u) :
        /\ RouteMessage(fsmState[u], text) = "process_calorie_goal"
        /\ last' = Update(u, "process_calorie_goal", text)
        /\ LET calorie_goal_input == Strip(text)
               manual_goal == calorie_goal_input # AVTO
               calorie_goal_value == IF manual_goal THEN ParseFloat(calorie_goal_input)
                                     ELSE None
           IN IF manual_goal /\ IsError(calorie_goal_value)
              THEN /\ out' = <<Msg(u, "error_calorie_goal")>>
                   /\ UNCHANGED <<users, fsmState, fsmData, tasks, inputs>>
              ELSE /\ CanSuspend(u)
                   /\ tasks' = Suspend(Task(u, "process_calorie_goal", "get_temperature",
                                   [data |-> fsmData[u], manual_goal |-> manual_goal,
                                    calorie_goal_value |-> calorie_goal_value]))
                   /\ out' = <<>>
                   /\ UNCHANGED <<users, fsmState, fsmData, inputs>>

\* process_calorie_goal from the return of get_temperature (line 214) to
\* the send of line 247.  An arithmetic TypeError (a None operand) ends the
\* handler before the profile is written; int() of a NaN goal in the reply
\* (lines 249-250) ends it after the profile is written, before the send.
process_calorie_goal_temp(i) ==
    /\ Suspended(i, "process_calorie_goal", "get_temperature")
    /\ \E resp \in inputs[tasks[i].user].weather :
        /\ last' = ResumeWith(i, resp)
        /\ LET u == tasks[i].user
               loc == tasks[i].loc
               data == loc.data
               temp == get_temperature(resp)
               water_goal == WaterGoal(data.weight, data.activity, temp)
               calorie_goal_value ==
                   IF loc.manual_goal THEN loc.calorie_goal_value
                   ELSE AutoCalorieGoal(data.weight, data.height, data.age, data.activity)
           IN IF IsError(water_goal) \/ IsError(calorie_goal_value)
              THEN /\ tasks' = Remove(i)
                   /\ out' = <<>>
                   /\ UNCHANGED <<users, fsmState, fsmData, inputs>>
              ELSE /\ users' = [users EXCEPT ![u] =
                                   NewProfile(data, temp, water_goal, calorie_goal_value)]
                   /\ IF IsError(ToInt(water_goal)) \/ IsError(ToInt(calorie_goal_value))
                      THEN /\ tasks' = Remove(i)
                           /\ out' = <<>>
                      ELSE /\ tasks' = Replace(i, Task(u, "process_calorie_goal", "answer",
                                                       NoLocals))
                           /\ out' = <<[to |-> u, kind |-> "profile_saved",
                                        water_goal |-> ToInt(water_goal),
                                        calorie_goal |-> ToInt(calorie_goal_value),
                                        temp |-> temp]>>
                   /\ UNCHANGED <<fsmState, fsmData, inputs>>

\* process_calorie_goal after the send: state.clear() (line 253)
process_calorie_goal_sent(i) ==
    /\ Suspended(i, "process_calorie_goal", "answer")
    /\ last' = Resume(i)
    /\ fsmState' = ClearState(tasks[i].user)
    /\ fsmData' = ClearData(tasks[i].user)
    /\ tasks' = Remove(i)
    /\ out' = <<>>
    /\ UNCHANGED <<users, inputs>>

\* ---------------------------------------------------------------- ledger

\* user_id in users
HasProfile(u) == users[u] # None

\* the guard of the ledger handlers returning without the answer
NeedProfile_silent(u) == <<>>

\* the answer of the ledger handlers to a user without a profile
\* (lines 258-260, 284-286, 377-378, 409-411, 456-458, 489-491)
NeedProfile(u) == <<Msg(u, "need_profile")>>

LogCount(u) ==
    IF HasProfile(u)
    THEN Len(users[u].water_logs) + Len(users[u].food_logs) + Len(users[u].workout_logs)
    ELSE 0

\* max(0, water_goal - logged_water) as lines 275-277 and 463 compute it
Remaining(water_goal, logged_water) ==
    IF Lt(Sub(water_goal, logged_water), PyInt(0)) THEN PyInt(0)
    ELSE Sub(water_goal, logged_water)

\* lines 273-274 with = written for +=
RecordWater_assign(profile, amount) ==
    [profile EXCEPT !.logged_water = amount,
                    !.water_logs = Append(@, amount)]

\* lines 273-274: the cumulative field grows, the event is appended
RecordWater(profile, amount) ==
    [profile EXCEPT !.logged_water = Add(@, amount),
                    !.water_logs = Append(@, amount)]

\* log_water (lines 255-278)
log_water(u) ==
    \E text \in TextsOf(u) :
        /\ RouteMessage(fsmState[u], text) = "log_water"
        /\ last' = Update(u, "log_water", text)
        /\ LET parts == Split(text)
               amount == ParseFloat(parts[2])
           IN IF ~HasProfile(u)
              THEN /\ out' = NeedProfile(u)
                   /\ UNCHANGED users
              ELSE IF Len(parts) < 2
              THEN /\ out' = <<Msg(u, "usage_log_water")>>
                   /\ UNCHANGED users
              ELSE IF IsError(amount)
              THEN /\ out' = <<Msg(u, "error_water")>>
                   /\ UNCHANGED users
              ELSE /\ LogCount(u) < MaxLogs
                   /\ users' = [users EXCEPT ![u] = RecordWater(@, amount)]
                   /\ out' = <<[to |-> u, kind |-> "water_logged", amount |-> amount,
                                remaining |-> Remaining(users'[u].water_goal,
                                                        users'[u].logged_water)]>>
        /\ UNCHANGED <<fsmState, fsmData, tasks, inputs>>

\* ---------------------------------------------------------------- food logging

\* the id of the k-th candidate (str(uuid.uuid4())[:8] in the source)
CandidateId(k) == <<CASE k = 1 -> "1" [] k = 2 -> "2" [] k = 3 -> "3"
                      [] k = 4 -> "4" [] OTHER -> "5">>

\* candidates_dict: the candidates by id, kept in list order
Dict(items) == [t |-> "dict", items |-> items]

\* line 345 with the first candidate as the default of get
Lookup_default(dict, id) ==
    IF IsNone(dict) THEN None
    ELSE IF \E k \in 1..Len(dict.items) : CandidateId(k) = id
         THEN dict.items[CHOOSE k \in 1..Len(dict.items) : CandidateId(k) = id]
         ELSE dict.items[1]

\* candidates_dict.get(candidate_id) of data.get("candidates_dict", {})
Lookup(dict, id) ==
    IF IsNone(dict) THEN None
    ELSE IF \E k \in 1..Len(dict.items) : CandidateId(k) = id
         THEN dict.items[CHOOSE k \in 1..Len(dict.items) : CandidateId(k) = id]
         ELSE None

\* log_food_start (lines 281-327), up to the catalog request
log_food_start(u) ==
    \E text \in TextsOf(u) :
        /\ RouteMessage(fsmState[u], text) = "log_food_start"
        /\ last' = IF HasProfile(u) /\ Len(SplitOnce(text)) >= 2
                   THEN Select(Update(u, "log_food_start", text), u, None)
                   ELSE Update(u, "log_food_start", text)
        /\ LET parts == SplitOnce(text)
           IN IF ~HasProfile(u)
              THEN /\ out' = NeedProfile(u)
                   /\ UNCHANGED tasks
              ELSE IF Len(parts) < 2
              THEN /\ out' = <<Msg(u, "usage_log_food")>>
                   /\ UNCHANGED tasks
              ELSE /\ CanSuspend(u)
                   /\ tasks' = Suspend(Task(u, "log_food_start", "get_food_candidates",
                                            [food_name |-> Strip(parts[2])]))
                   /\ out' = <<>>
        /\ UNCHANGED <<users, fsmState, fsmData, inputs>>

\* log_food_start from the return of get_food_candidates (line 295) to the
\* send: without candidates the manual prompt (line 298); with candidates
\* the mapping is stored in the data dict (lines 322-324) and the keyboard
\* is sent (line 326)
log_food_start_candidates(i) ==
    /\ Suspended(i, "log_food_start", "get_food_candidates")
    /\ \E resp \in inputs[tasks[i].user].catalog :
        /\ last' = ResumeWith(i, resp)
        /\ LET u == tasks[i].user
               food_name == tasks[i].loc.food_name
               candidates == get_food_candidates(food_name, resp)
           IN IF Len(candidates) = 0
              THEN /\ out' = <<Msg(u, "not_found_ask_manual")>>
                   /\ tasks' = Replace(i, Task(u, "log_food_start", "answer_manual",
                                               [food_name |-> food_name]))
                   /\ UNCHANGED fsmData
              ELSE /\ fsmData' = UpdateData(u, "candidates_dict", Dict(candidates))
                   /\ out' = <<[to |-> u, kind |-> "choose_product",
                                buttons |-> Len(candidates) + 1]>>
                   /\ tasks' = Replace(i, Task(u, "log_food_start", "answer_choice", NoLocals))
    /\ UNCHANGED <<users, fsmState, inputs>>

\* lines 299-301
log_food_start_manual_sent(i) ==
    /\ Suspended(i, "log_food_start", "answer_manual")
    /\ last' = Resume(i)
    /\ fsmState' = SetState(tasks[i].user, "waiting_for_manual_cal")
    /\ fsmData' = UpdateData(tasks[i].user, "food_name", PyStr(tasks[i].loc.food_name))
    /\ tasks' = Remove(i)
    /\ out' = <<>>
    /\ UNCHANGED <<users, inputs>>

\* line 327
log_food_start_choice_sent(i) ==
    /\ Suspended(i, "log_food_start", "answer_choice")
    /\ last' = Resume(i)
    /\ fsmState' = SetState(tasks[i].user, "waiting_for_product_choice")
    /\ tasks' = Remove(i)
    /\ out' = <<>>
    /\ UNCHANGED <<users, fsmData, inputs>>

\* choose_food_callback (lines 329-358), up to the first await
choose_food_callback(u) ==
    \E data \in ButtonsOf(u) :
        /\ RouteCallback(fsmState[u]) = "choose_food_callback"
        /\ last' = LET chosen == Lookup(fsmData[u].candidates_dict,
                                        RemovePrefix(data, CHOOSE_FOOD_))
                   IN IF data # CHOOSE_FOOD_MANUAL /\ StartsWith(data, CHOOSE_FOOD_)
                         /\ chosen # None
                      THEN Select(Update(u, "choose_food_callback", data), u,
                                  chosen.calories)
                      ELSE Update(u, "choose_food_callback", data)
        /\ LET candidate_id == RemovePrefix(data, CHOOSE_FOOD_)
               chosen_candidate == Lookup(fsmData[u].candidates_dict, candidate_id)
           IN IF data = CHOOSE_FOOD_MANUAL
              THEN /\ CanSuspend(u)
                   /\ out' = <<Msg(u, "edit_ask_manual")>>
                   /\ tasks' = Suspend(Task(u, "choose_food_callback", "edit_manual",
                                            NoLocals))
              ELSE IF ~StartsWith(data, CHOOSE_FOOD_)
              THEN /\ out' = <<Msg(u, "invalid_choice")>>
                   /\ UNCHANGED tasks
              ELSE IF chosen_candidate = None
              THEN /\ out' = <<Msg(u, "invalid_choice")>>
                   /\ UNCHANGED tasks
              ELSE /\ CanSuspend(u)
                   /\ out' = <<[to |-> u, kind |-> "edit_chosen",
                                name |-> chosen_candidate.name,
                                calories |-> chosen_candidate.calories]>>
                   /\ tasks' = Suspend(Task(u, "choose_food_callback", "edit_chosen",
                                   [cal_per_100g |-> chosen_candidate.calories,
                                    food_name |-> chosen_candidate.name]))
        /\ UNCHANGED <<users, fsmState, fsmData, inputs>>

\* line 333
choose_food_manual_sent(i) ==
    /\ Suspended(i, "choose_food_callback", "edit_manual")
    /\ last' = Resume(i)
    /\ fsmState' = SetState(tasks[i].user, "waiting_for_manual_cal")
    /\ tasks' = Remove(i)
    /\ out' = <<>>
    /\ UNCHANGED <<users, fsmData, inputs>>

\* lines 357-358
choose_food_chosen_sent(i) ==
    /\ Suspended(i, "choose_food_callback", "edit_chosen")
    /\ last' = Resume(i)
    /\ fsmState' = SetState(tasks[i].user, "waiting_for_grams")
    /\ fsmData' = [fsmData EXCEPT
            ![tasks[i].user]["food_cal_per_100g"] = tasks[i].loc.cal_per_100g,
            ![tasks[i].user]["food_name"] = PyStr(tasks[i].loc.food_name)]
    /\ tasks' = Remove(i)
    /\ out' = <<>>
    /\ UNCHANGED <<users, inputs>>

\* set_manual_calories (lines 360-372)
set_manual_calories(u) ==
    \E text \in TextsOf(u) :
        /\ RouteMessage(fsmState[u], text) = "set_manual_calories"
        /\ last' = IF IsError(ParseFloat(text)) \/ Le(ParseFloat(text), PyInt(0))
                   THEN Update(u, "set_manual_calories", text)
                   ELSE Select(Update(u, "set_manual_calories", text), u,
                               ParseFloat(text))
        /\ LET custom_cal == ParseFloat(text)
           IN IF IsError(custom_cal) \/ Le(custom_cal, PyInt(0))
              THEN /\ out' = <<Msg(u, "error_manual_cal")>>
                   /\ UNCHANGED <<fsmData, tasks>>
              ELSE /\ CanSuspend(u)
                   /\ fsmData' = UpdateData(u, "food_cal_per_100g", custom_cal)
                   /\ out' = <<Msg(u, "ask_grams")>>
                   /\ tasks' = Suspend(Task(u, "set_manual_calories", "answer", NoLocals))
        /\ UNCHANGED <<users, fsmState, inputs>>

\* line 372
set_manual_calories_sent(i) ==
    /\ Suspended(i, "set_manual_calories", "answer")
    /\ last' = Resume(i)
    /\ fsmState' = SetState(tasks[i].user, "waiting_for_grams")
    /\ tasks' = Remove(i)
    /\ out' = <<>>
    /\ UNCHANGED <<users, fsmData, inputs>>

\* line 399
CaloriesConsumed(cal_per_100g, grams) == TrueDiv(Mul(cal_per_100g, grams), PyFloat(100 * Scale))

\* lines 400-401
RecordFood(profile, calories_consumed) ==
    [profile EXCEPT !.logged_calories = Add(@, calories_consumed),
                    !.food_logs = Append(@, calories_consumed)]

\* log_food_grams (lines 374-404), up to the send
log_food_grams(u) ==
    \E text \in TextsOf(u) :
        /\ RouteMessage(fsmState[u], text) = "log_food_grams"
        /\ last' = Update(u, "log_food_grams", text)
        /\ LET grams == ParseFloat(text)
               cal_per_100g == fsmData[u].food_cal_per_100g
               calories_consumed == CaloriesConsumed(cal_per_100g, grams)
               clear == Task(u, "log_food_grams", "answer", NoLocals)
           IN IF ~HasProfile(u)
              THEN /\ CanSuspend(u)
                   /\ out' = NeedProfile(u)
                   /\ tasks' = Suspend(clear)
                   /\ UNCHANGED users
              ELSE IF IsError(grams) \/ Le(grams, PyInt(0))
              THEN /\ out' = <<Msg(u, "error_grams")>>
                   /\ UNCHANGED <<users, tasks>>
              ELSE IF IsNone(cal_per_100g) \/ Le(cal_per_100g, PyInt(0))
              THEN /\ CanSuspend(u)
                   /\ out' = <<Msg(u, "calories_unknown")>>
                   /\ tasks' = Suspend(clear)
                   /\ UNCHANGED users
              ELSE /\ CanSuspend(u)
                   /\ LogCount(u) < MaxLogs
                   /\ users' = [users EXCEPT ![u] = RecordFood(@, calories_consumed)]
                   /\ out' = <<[to |-> u, kind |-> "food_logged",
                                calories |-> calories_consumed]>>
                   /\ tasks' = Suspend(clear)
        /\ UNCHANGED <<fsmState, fsmData, inputs>>

\* state.clear() after the send (lines 379, 396, 404)
log_food_grams_sent(i) ==
    /\ Suspended(i, "log_food_grams", "answer")
    /\ last' = Resume(i)
    /\ fsmState' = ClearState(tasks[i].user)
    /\ fsmData' = ClearData(tasks[i].user)
    /\ tasks' = Remove(i)
    /\ out' = <<>>
    /\ UNCHANGED <<users, inputs>>

\* ---------------------------------------------------------------- workouts

\* the factors dict (lines 420-425)
WorkoutTypes == {<<"b", "e", "g">>, <<"k", "h", "o", "d", "b", "a">>, <<"s", "i", "l", "o", "v", "a", "y", "a">>, <<"v", "e", "l", "o", "s", "i", "p", "e", "d">>}
Factor(workout_type) ==
    CASE workout_type = <<"b", "e", "g">> -> PyInt(10)
      [] workout_type = <<"k", "h", "o", "d", "b", "a">> -> PyInt(4)
      [] workout_type = <<"s", "i", "l", "o", "v", "a", "y", "a">> -> PyInt(8)
      [] workout_type = <<"v", "e", "l", "o", "s", "i", "p", "e", "d">> -> PyInt(7)
      [] OTHER -> PyInt(6)

\* line 446
ExtraWater_truediv(minutes) == Mul(TrueDiv(minutes, PyInt(30)), PyInt(200))

ExtraWater(minutes) == Mul(FloorDiv(minutes, PyInt(30)), PyInt(200))

\* lines 443-447 with the event inserted at the front of the log
RecordWorkout_prepend(profile, burned, extra_water) ==
    [profile EXCEPT !.burned_calories = Add(@, burned),
                    !.workout_logs = <<burned>> \o @,
                    !.water_goal = Add(@, extra_water)]

\* lines 443-447
RecordWorkout(profile, burned, extra_water) ==
    [profile EXCEPT !.burned_calories = Add(@, burned),
                    !.workout_logs = Append(@, burned),
                    !.water_goal = Add(@, extra_water)]

\* log_workout (lines 406-451); int(extra_water) of a NaN (line 450) ends
\* the handler after the ledger is written, before the send
log_workout(u) ==
    \E text \in TextsOf(u) :
        /\ RouteMessage(fsmState[u], text) = "log_workout"
        /\ last' = Update(u, "log_workout", text)
        /\ LET args == Split(text)
               workout_type == args[2]
               minutes == ParseFloat(args[3])
               burned == Mul(Factor(workout_type), minutes)
               extra_water == ExtraWater(minutes)
           IN IF ~HasProfile(u)
              THEN /\ out' = NeedProfile(u)
                   /\ UNCHANGED users
              ELSE IF Len(args) <= 2
              THEN /\ out' = <<Msg(u, "usage_log_workout")>>
                   /\ UNCHANGED users
              ELSE IF workout_type \notin WorkoutTypes
              THEN /\ out' = <<Msg(u, "error_workout_type")>>
                   /\ UNCHANGED users
              ELSE IF IsError(minutes)
              THEN /\ out' = <<Msg(u, "error_minutes")>>
                   /\ UNCHANGED users
              ELSE /\ LogCount(u) < MaxLogs
                   /\ users' = [users EXCEPT ![u] = RecordWorkout(@, burned, extra_water)]
                   /\ out' = IF IsError(ToInt(extra_water)) THEN <<>>
                             ELSE <<[to |-> u, kind |-> "workout_logged",
                                     burned |-> burned,
                                     extra_water |-> ToInt(extra_water)]>>
        /\ UNCHANGED <<fsmState, fsmData, tasks, inputs>>

\* ---------------------------------------------------------------- progress

\* line 463
RemainingWater(water_goal, logged_water) ==
    IF Gt(water_goal, logged_water) THEN Sub(water_goal, logged_water) ELSE PyInt(0)

NetCalories_sum(logged_calories, burned_calories) == Add(logged_calories, burned_calories)

\* line 467
NetCalories(logged_calories, burned_calories) == Sub(logged_calories, burned_calories)

\* line 479: water_goal * 0.5
Half(water_goal) == IF IsNaN(water_goal) THEN NaN ELSE PyFloat(Scaled(water_goal) \div 2)

\* the reply of check_progress (lines 460-483)
Progress(u, data) ==
    [to |-> u, kind |-> "progress",
     remaining_water |-> RemainingWater(data.water_goal, data.logged_water),
     net_calories |-> NetCalories(data.logged_calories, data.burned_calories),
     more_water |-> Lt(data.logged_water, Half(data.water_goal)),
     adjust_calories |-> Gt(NetCalories(data.logged_calories, data.burned_calories),
                            data.calorie_goal)]

\* check_progress (lines 453-483)
check_progress(u) ==
    \E text \in TextsOf(u) :
        /\ RouteMessage(fsmState[u], text) = "check_progress"
        /\ last' = Update(u, "check_progress", text)
        /\ out' = IF ~HasProfile(u) THEN NeedProfile(u) ELSE <<Progress(u, users[u])>>
        /\ UNCHANGED <<users, fsmState, fsmData, tasks, inputs>>

\* show_graph (lines 486-557): one reply for the water log, one for the
\* calorie logs
show_graph(u) ==
    \E text \in TextsOf(u) :
        /\ RouteMessage(fsmState[u], text) = "show_graph"
        /\ last' = Update(u, "show_graph", text)
        /\ out' = IF ~HasProfile(u) THEN NeedProfile(u)
                  ELSE <<Msg(u, IF Len(users[u].water_logs) > 0
                                THEN "water_graph" ELSE "no_water_data"),
                         Msg(u, IF Len(users[u].food_logs) > 0
                                   \/ Len(users[u].workout_logs) > 0
                                THEN "calorie_graph" ELSE "no_calorie_data")>>
        /\ UNCHANGED <<users, fsmState, fsmData, tasks, inputs>>

\* an update that no registered handler accepts is dropped by the dispatcher
unhandled_message(u) ==
    \E text \in TextsOf(u) :
        /\ RouteMessage(fsmState[u], text) = "unhandled"
        /\ last' = Update(u, "unhandled", text)
        /\ out' = <<>>
        /\ UNCHANGED <<users, fsmState, fsmData, tasks, inputs>>

unhandled_callback(u) ==
    \E data \in ButtonsOf(u) :
        /\ RouteCallback(fsmState[u]) = "unhandled"
        /\ last' = Update(u, "unhandled", data)
        /\ out' = <<>>
        /\ UNCHANGED <<users, fsmState, fsmData, tasks, inputs>>

\* ---------------------------------------------------------------- specification

Init ==
    /\ users = [u \in Users |-> None]
    /\ fsmState = [u \in Users |-> NoState]
    /\ fsmData = [u \in Users |-> EmptyData]
    /\ tasks = <<>>
    /\ out = <<>>
    /\ last = NoStep
    /\ inputs \in Scenarios

\* the positions of the suspended invocations
Slots == 1..(MaxInFlight * Cardinality(Users))

Next ==
    \/ \E u \in Users : cmd_start(u)
    \/ \E u \in Users : set_profile(u)
    \/ \E i \in Slots : set_profile_sent(i)
    \/ \E u \in Users : process_weight(u)
    \/ \E u \in Users : process_height(u)
    \/ \E u \in Users : process_age(u)
    \/ \E u \in Users : process_activity(u)
    \/ \E u \in Users : process_city(u)
    \/ \E i \in Slots : process_field_sent(i)
    \/ \E u \in Users : process_calorie_goal(u)
    \/ \E i \in Slots : process_calorie_goal_temp(i)
    \/ \E i \in Slots : process_calorie_goal_sent(i)
    \/ \E u \in Users : log_water(u)
    \/ \E u \in Users : log_food_start(u)
    \/ \E i \in Slots : log_food_start_candidates(i)
    \/ \E i \in Slots : log_food_start_manual_sent(i)
    \/ \E i \in Slots : log_food_start_choice_sent(i)
    \/ \E u \in Users : choose_food_callback(u)
    \/ \E i \in Slots : choose_food_manual_sent(i)
    \/ \E i \in Slots : choose_food_chosen_sent(i)
    \/ \E u \in Users : set_manual_calories(u)
    \/ \E i \in Slots : set_manual_calories_sent(i)
    \/ \E u \in Users : log_food_grams(u)
    \/ \E i \in Slots : log_food_grams_sent(i)
    \/ \E u \in Users : log_workout(u)
    \/ \E u \in Users : check_progress(u)
    \/ \E u \in Users : show_graph(u)
    \/ \E u \in Users : unhandled_message(u)
    \/ \E u \in Users : unhandled_callback(u)

Spec == Init /\ [][Next]_vars

\* ---------------------------------------------------------------- properties

\* the step taken is the part of a handler that runs when an update of u
\* is dispatched to it
Handles(u, handler) ==
    last'.user = u /\ last'.handler = handler /\ last'.part = "update"

\* the step taken is the part of process_calorie_goal that writes users[u]
Commits(u) ==
    /\ last'.user = u
    /\ last'.handler = "process_calorie_goal"
    /\ last'.part = "get_temperature"
    /\ users'[u] # users[u]

\* a profile of real numbers
RealProfile(p) ==
    /\ p.weight.t = "float" /\ p.height.t = "float"
    /\ p.age.t = "int" /\ p.activity.t = "int" /\ p.temp.t = "float"

\* weight*30 + floor(activity/30)*500 + (500 if temperature > 25 else 0)
ExpectedWaterGoal(p) ==
    PyFloat(p.weight.v * 30 + (p.activity.v \div 30) * 500 * Scale
            + (IF p.temp.v > 25 * Scale THEN 500 * Scale ELSE 0))

\* 10*weight + 6.25*height - 5*age + floor(activity/30)*200
ExpectedCalorieGoal(p) ==
    PyFloat(10 * p.weight.v + (25 * p.height.v) \div 4 - 5 * p.age.v * Scale
            + (p.activity.v \div 30) * 200 * Scale)

\* weight=70, height=175, age=25, activity=60, temperature=30
ExampleProfile(p) ==
    /\ p.weight = PyFloat(70 * Scale) /\ p.height = PyFloat(175 * Scale)
    /\ p.age = PyInt(25) /\ p.activity = PyInt(60) /\ p.temp = PyFloat(30 * Scale)

CommitMatchesFormulas(u) ==
    RealProfile(users'[u]) =>
        /\ users'[u].water_goal = ExpectedWaterGoal(users'[u])
        /\ ~last'.loc.manual_goal =>
               users'[u].calorie_goal = ExpectedCalorieGoal(users'[u])

\* C1 as stated: the profile committed by process_calorie_goal has
\* water_goal = weight*30 + floor(activity/30)*500 + (500 if temperature > 25)
\* and, for the auto keyword, calorie_goal = 10*weight + 6.25*height - 5*age
\* + floor(activity/30)*200; the example profile at 30 degrees gets 4100
\* and 2068.75.
C1_AsStated ==
    [][\A u \in Users : Commits(u) =>
          /\ CommitMatchesFormulas(u)
          /\ (ExampleProfile(users'[u]) /\ ~last'.loc.manual_goal) =>
                 /\ users'[u].water_goal = PyFloat(4100 * Scale)
                 /\ users'[u].calorie_goal = PyFloat(206875)]_vars

\* C1, amended: the profile committed by process_calorie_goal has
\* water_goal = weight*30 + floor(activity/30)*500 + (500 if temperature > 25)
\* and, for the auto keyword, calorie_goal = 10*weight + 6.25*height - 5*age
\* + floor(activity/30)*200; the example profile at 30 degrees gets 3600
\* and 2068.75.
C1_CommitFormulas ==
    [][\A u \in Users : Commits(u) =>
          /\ CommitMatchesFormulas(u)
          /\ (ExampleProfile(users'[u]) /\ ~last'.loc.manual_goal) =>
                 /\ users'[u].water_goal = PyFloat(3600 * Scale)
                 /\ users'[u].calorie_goal = PyFloat(206875)]_vars

\* the example profile has just been committed with the auto keyword
C1_Witness ==
    /\ last.handler = "process_calorie_goal" /\ last.part = "get_temperature"
    /\ ~last.loc.manual_goal
    /\ users[last.user] # None
    /\ ExampleProfile(users[last.user])
    /\ users[last.user].water_goal = PyFloat(3600 * Scale)
    /\ users[last.user].calorie_goal = PyFloat(206875)
    /\ users[last.user].water_logs = <<>>

\* sum(amounts) of an event sequence
RECURSIVE SumOf(_)
SumOf(log) ==
    IF Len(log) = 0 THEN PyInt(0)
    ELSE Add(SumOf(SubSeq(log, 1, Len(log) - 1)), log[Len(log)])

\* C2: for every user with a profile, in every reachable state,
\* logged_water is the sum of water_logs, logged_calories the sum of
\* food_logs and burned_calories the sum of workout_logs.
C2_CumulativeIsSum ==
    \A u \in Users : HasProfile(u) =>
        /\ users[u].logged_water = SumOf(users[u].water_logs)
        /\ users[u].logged_calories = SumOf(users[u].food_logs)
        /\ users[u].burned_calories = SumOf(users[u].workout_logs)

\* two amounts of water have been logged since the profile commit
C2_Witness ==
    \E u \in Users :
        /\ HasProfile(u)
        /\ Len(users[u].water_logs) = 2
        /\ users[u].water_logs[1] # users[u].water_logs[2]
        /\ users[u].logged_water = SumOf(users[u].water_logs)

\* C3: while a handler invocation of a user is suspended at an external
\* call, no other update of that user begins processing.
C3_Serialized ==
    [][\A u \in Users :
          (last'.user = u /\ last'.part = "update") => TasksOf(u) = {}]_vars

NumericHandlers ==
    {"process_weight", "process_height", "process_age", "process_activity"}

\* the text parsed as the handler parses it
ParsedBy(handler, text) ==
    IF handler \in {"process_weight", "process_height"} THEN ParseFloat(text)
    ELSE ParseInt(text)

ErrorOf(handler) ==
    CASE handler = "process_weight" -> "error_weight"
      [] handler = "process_height" -> "error_height"
      [] handler = "process_age" -> "error_age"
      [] handler = "process_activity" -> "error_activity"

\* C4: in the states weight, height, age and activity, an input that does
\* not parse as the number expected leaves the state and the collected
\* fields as they were, changes no profile or ledger, starts nothing, and
\* is answered with the error message of the field.
C4_ParseFailureRetainsState ==
    [][\A u \in Users : \A h \in NumericHandlers :
          (Handles(u, h) /\ IsError(ParsedBy(h, last'.input))) =>
              /\ fsmState' = fsmState
              /\ fsmData' = fsmData
              /\ users' = users
              /\ tasks' = tasks
              /\ out' = <<Msg(u, ErrorOf(h))>>]_vars

\* "25.5" has been refused as an age
C4_Witness ==
    /\ last.handler = "process_age" /\ last.part = "update"
    /\ last.input = <<"2", "5", ".", "5">>
    /\ fsmState[last.user] = "age"
    /\ fsmData[last.user].age = None
    /\ out = <<Msg(last.user, "error_age")>>

\* x is a number and x > 0, resp. x >= 0
Positive(x) == x.t \in {"int", "float"} /\ Scaled(x) > 0
NonNegative(x) == x.t \in {"int", "float"} /\ Scaled(x) >= 0

\* C5: a collected field is in its range: weight and height positive,
\* age and activity non-negative, city non-empty (an input outside the range
\* is rejected and no field written).
C5_FieldsInRange ==
    \A u \in Users :
        /\ fsmData[u].weight # None => Positive(fsmData[u].weight)
        /\ fsmData[u].height # None => Positive(fsmData[u].height)
        /\ fsmData[u].age # None => NonNegative(fsmData[u].age)
        /\ fsmData[u].activity # None => NonNegative(fsmData[u].activity)
        /\ fsmData[u].city # None => Len(fsmData[u].city.s) > 0

\* C6: a profile is committed only for the auto keyword or a positive
\* number: a numeric calorie goal that is committed is positive (any other
\* input is rejected and no profile written).
C6_GoalAutoOrPositive ==
    [][\A u \in Users :
          (Commits(u) /\ last'.loc.manual_goal) =>
              Positive(users'[u].calorie_goal)]_vars

\* C7: in waiting_for_grams every input that parses as a positive number
\* appends one food event and increases logged_calories by it; any other
\* input logs nothing and retains the state.
C7_PositiveGramsLogged ==
    [][\A u \in Users : Handles(u, "log_food_grams") =>
          IF Positive(ParseFloat(last'.input))
          THEN /\ Len(users'[u].food_logs) = Len(users[u].food_logs) + 1
               /\ users'[u].logged_calories =
                      Add(users[u].logged_calories,
                          users'[u].food_logs[Len(users'[u].food_logs)])
          ELSE users' = users /\ fsmState' = fsmState]_vars

\* C8: logged_water is never negative and no step other than a profile
\* commit lowers it.
C8_WaterMonotone ==
    [][\A u \in Users : users'[u] # None =>
          /\ ~Lt(users'[u].logged_water, PyInt(0))
          /\ (users[u] # None /\ ~Commits(u)) =>
                 ~Lt(users'[u].logged_water, users[u].logged_water)]_vars

LedgerHandlers ==
    {"log_water", "log_food_start", "log_workout", "check_progress", "show_graph"}

\* C9: log_water, log_food, log_workout, check_progress and show_graph of
\* a user without a profile send the set-up-profile prompt and change
\* nothing: no entry in users, no session state or data, nothing started.
C9_NoProfileNoChange ==
    [][\A u \in Users : \A h \in LedgerHandlers :
          (Handles(u, h) /\ users[u] = None) =>
              /\ users' = users
              /\ fsmState' = fsmState
              /\ fsmData' = fsmData
              /\ tasks' = tasks
              /\ out' = <<Msg(u, "need_profile")>>]_vars

\* a user without a profile has asked for the graph and got the prompt
C9_Witness ==
    /\ last.part = "update" /\ last.handler = "show_graph"
    /\ users[last.user] = None
    /\ fsmState[last.user] = NoState
    /\ out = <<Msg(last.user, "need_profile")>>

\* a non-empty candidate mapping
HasCandidates(data) ==
    data.candidates_dict # None /\ Len(data.candidates_dict.items) > 0

\* C10: a session in the product-choice state has a non-empty candidate
\* mapping, and a search without candidates leads to the manual-calorie
\* state.
C10_ChoiceHasCandidates ==
    \A u \in Users :
        /\ fsmState[u] = "waiting_for_product_choice" => HasCandidates(fsmData[u])
        /\ (last.user = u /\ last.handler = "log_food_start"
                /\ last.part = "answer_manual")
               => fsmState[u] = "waiting_for_manual_cal"

\* the positions of the stored candidates that the button data names
KeysNamed(data, dict) ==
    IF dict = None THEN {}
    ELSE {k \in 1..Len(dict.items) : data = CHOOSE_FOOD_ \o CandidateId(k)}

\* the step taken is the part of a handler that runs after its await pc
Resumes(u, handler, pc) ==
    last'.user = u /\ last'.handler = handler /\ last'.part = pc

\* C11: in the product-choice state a press that names neither the manual
\* option nor a stored candidate id is rejected: state, session data, users
\* map and ledger stay as they were and nothing is started; a press naming a
\* stored id leads to waiting_for_grams with that candidate's calories per
\* 100 g; the manual option leads to waiting_for_manual_cal.
C11_SelectionOutcome ==
    [][\A u \in Users :
          /\ Handles(u, "choose_food_callback") =>
                LET data == last'.input
                    keys == KeysNamed(data, fsmData[u].candidates_dict)
                IN /\ users' = users /\ fsmState' = fsmState /\ fsmData' = fsmData
                   /\ IF data = CHOOSE_FOOD_MANUAL
                      THEN /\ Len(tasks') = Len(tasks) + 1
                           /\ tasks'[Len(tasks')].pc = "edit_manual"
                      ELSE IF keys # {}
                      THEN /\ Len(tasks') = Len(tasks) + 1
                           /\ tasks'[Len(tasks')].pc = "edit_chosen"
                           /\ \A k \in keys :
                                 tasks'[Len(tasks')].loc.cal_per_100g =
                                     fsmData[u].candidates_dict.items[k].calories
                      ELSE /\ tasks' = tasks
                           /\ out' = <<Msg(u, "invalid_choice")>>
          /\ Resumes(u, "choose_food_callback", "edit_chosen") =>
                /\ fsmState'[u] = "waiting_for_grams"
                /\ fsmData'[u].food_cal_per_100g = last'.loc.cal_per_100g
                /\ users' = users
          /\ Resumes(u, "choose_food_callback", "edit_manual") =>
                /\ fsmState'[u] = "waiting_for_manual_cal"
                /\ users' = users]_vars

\* a press naming an id that is not stored has been rejected in the
\* product-choice state
C11_Witness ==
    /\ last.part = "update" /\ last.handler = "choose_food_callback"
    /\ last.input = CHOOSE_FOOD_ \o <<"9">>
    /\ fsmState[last.user] = "waiting_for_product_choice"
    /\ HasCandidates(fsmData[last.user])
    /\ out = <<Msg(last.user, "invalid_choice")>>

\* the arguments of the log_workout command handled by the step taken
WorkoutArgs == Split(last'.input)

\* the step taken is log_workout of a user with a profile, called with a
\* workout type and a number of minutes
WorkoutGiven(u) ==
    /\ Handles(u, "log_workout")
    /\ users[u] # None
    /\ Len(WorkoutArgs) > 2
    /\ ~IsError(ParseFloat(WorkoutArgs[3]))

\* C12: a log_workout with a type and a number of minutes adds
\* factor(type) * minutes to burned_calories and appends one workout event of
\* that value, the factor being 10, 4, 8, 7 for run, walk, strength, cycle and
\* 6 for every other type.
C12_FactorApplied ==
    [][\A u \in Users :
         WorkoutGiven(u) =>
             LET burned == Mul(Factor(WorkoutArgs[2]), ParseFloat(WorkoutArgs[3]))
             IN /\ users'[u].burned_calories = Add(users[u].burned_calories, burned)
                /\ users'[u].workout_logs = Append(users[u].workout_logs, burned)]_vars

\* floor(m / 30) * 200 of a real number of minutes m, in 1/Scale units
BonusOf(m) == (Scaled(m) \div (30 * Scale)) * 200 * Scale

\* the step taken is a log_workout that the handler accepts
WorkoutAccepted(u) == WorkoutGiven(u) /\ WorkoutArgs[2] \in WorkoutTypes

\* the water goal after a bonus for m minutes is added to goal
GoalWithBonus(goal, m) ==
    IF IsNaN(goal) \/ IsNaN(m) THEN NaN ELSE PyFloat(Scaled(goal) + BonusOf(m))

\* C13: every accepted log_workout of m minutes raises water_goal by exactly
\* floor(m / 30) * 200, each time it is called and without a cap, and no step
\* other than a profile commit changes water_goal otherwise, so the bonuses
\* since the last commit add up.
C13_BonusAdditive ==
    [][\A u \in Users :
         (users[u] # None /\ users'[u] # None /\ ~Commits(u)) =>
             IF WorkoutAccepted(u)
             THEN users'[u].water_goal =
                      GoalWithBonus(users[u].water_goal, ParseFloat(WorkoutArgs[3]))
             ELSE users'[u].water_goal = users[u].water_goal]_vars

\* two runs of 45 minutes after a commit of 3100 ml: the goal is 3100 + 200 + 200
C13_Witness ==
    /\ last.handler = "log_workout"
    /\ users[1] # None
    /\ users[1].workout_logs = <<PyFloat(450 * Scale), PyFloat(450 * Scale)>>
    /\ users[1].water_goal = PyFloat(3500 * Scale)

\* an int or a float that is not NaN
Real(a) == a.t \in {"int", "float"}

\* a == b of two Python numbers
SameNumber(a, b) ==
    \/ IsNaN(a) /\ IsNaN(b)
    \/ Real(a) /\ Real(b) /\ Scaled(a) = Scaled(b)

\* max(0, goal - logged) in 1/Scale units; a NaN operand gives 0
ExpectedRemaining(p) ==
    IF Real(p.water_goal) /\ Real(p.logged_water)
       /\ Scaled(p.water_goal) > Scaled(p.logged_water)
    THEN PyFloat(Scaled(p.water_goal) - Scaled(p.logged_water))
    ELSE PyInt(0)

\* logged_calories - burned_calories
ExpectedNet(p) ==
    IF Real(p.logged_calories) /\ Real(p.burned_calories)
    THEN PyFloat(Scaled(p.logged_calories) - Scaled(p.burned_calories))
    ELSE NaN

\* C14: check_progress of a user with a profile reports remaining water
\* max(0, water_goal - logged_water) and net calories logged_calories -
\* burned_calories, recommends more water exactly when logged_water is below
\* half of water_goal and a calorie adjustment exactly when the net calories
\* exceed calorie_goal, and changes neither the profile, the ledger nor the
\* session.
C14_ProgressReport ==
    [][\A u \in Users :
         (Handles(u, "check_progress") /\ users[u] # None) =>
             LET p == users[u]
                 net == ExpectedNet(p)
             IN /\ Len(out') = 1
                /\ out'[1].to = u
                /\ out'[1].kind = "progress"
                /\ SameNumber(out'[1].remaining_water, ExpectedRemaining(p))
                /\ SameNumber(out'[1].net_calories, net)
                /\ out'[1].more_water =
                       (Real(p.logged_water) /\ Real(p.water_goal)
                        /\ 2 * Scaled(p.logged_water) < Scaled(p.water_goal))
                /\ out'[1].adjust_calories =
                       (Real(net) /\ Real(p.calorie_goal)
                        /\ Scaled(net) > Scaled(p.calorie_goal))
                /\ UNCHANGED <<users, fsmState, fsmData, tasks>>]_vars

\* a progress report after 4000 ml were logged against a goal of 3600 ml:
\* nothing remains and no water is recommended
C14_Witness ==
    /\ last.handler = "check_progress"
    /\ Len(out) = 1
    /\ out[1].kind = "progress"
    /\ users[1].logged_water = PyFloat(4000 * Scale)
    /\ out[1].remaining_water = PyInt(0)
    /\ ~out[1].more_water

\* a progress report that recommends a calorie adjustment
C14_AdjustReached ==
    /\ last.handler = "check_progress"
    /\ Len(out) = 1
    /\ out[1].kind = "progress"
    /\ out[1].adjust_calories

\* C15: every incoming event is answered: the step that handles an update
\* sends at least one message, or leaves an invocation of its handler
\* suspended that has still to send one; no update is dropped without a reply.
C15_EveryEventAnswered ==
    \A u \in Users :
        (last.user = u /\ last.part = "update" /\ out = <<>>) =>
            \E i \in 1..Len(tasks) :
                tasks[i].user = u /\ tasks[i].handler = last.handler

\* the temperature the weather lookup is to return for an answer of the
\* service: main.temp of a 200 payload that has it, 15.0 for every other
\* response received, 20.0 when no response is received
ExpectedTemperature(resp) ==
    IF resp.t = "exception" THEN PyFloat(20 * Scale)
    ELSE IF /\ resp.status = 200
            /\ resp.body.t = "object"
            /\ ~IsNone(resp.body.main)
            /\ "temp" \in resp.body.main.keys
         THEN resp.body.main.temp
    ELSE PyFloat(15 * Scale)

\* C16: get_temperature returns main.temp of a successful response, 15.0
\* whenever a response is received that is a failure (a status other than
\* 200, or a 200 payload without main.temp), and 20.0 only when the call
\* raises before a response is received: the temperature of every committed
\* profile is the one expected for the answer of the service.
C16_TemperatureFallbacks ==
    [][\A u \in Users :
         Commits(u) => users'[u].temp = ExpectedTemperature(last'.resp)]_vars

\* reading the record prod raises: its calorie value is no number
RecordRaises(prod) ==
    /\ prod.t = "dict"
    /\ LET cal == IF ~IsNone(prod.kcal100) THEN prod.kcal100 ELSE prod.kcal
       IN /\ ~IsNone(cal)
          /\ Len(Strip(prod.product_name)) > 0
          /\ IsError(FloatOf(cal))

\* the catalog call failed: no response, or an error while its records are read
CatalogFailed(resp) ==
    \/ resp.t = "exception"
    \/ \E i \in 1..Len(resp.products) : RecordRaises(resp.products[i])

\* C17: when the catalog call fails (a transport error, or an error raised
\* while the response or its records are read) get_food_candidates returns
\* the empty sequence, with no partially collected candidates: log_food then
\* takes its branch for an empty result and asks for the manual value.
C17_FailureGivesEmpty ==
    [][\A u \in Users :
         (Resumes(u, "log_food_start", "get_food_candidates")
          /\ CatalogFailed(last'.resp)) =>
             out' = <<Msg(u, "not_found_ask_manual")>>]_vars

\* C18: in the waiting_for_manual_cal state an input that does not parse as
\* a number greater than 0 is rejected: the session state and the collected
\* fields stay as they were, the ledger is unchanged and no invocation is
\* left to move the session on.
C18_ManualCaloriesPositive ==
    [][\A u \in Users :
         (Handles(u, "set_manual_calories") /\ ~Positive(ParseFloat(last'.input))) =>
             /\ fsmState'[u] = fsmState[u]
             /\ fsmData'[u] = fsmData[u]
             /\ users'[u] = users[u]
             /\ tasks' = tasks]_vars

\* new is old, or old with exactly one element appended at the end
Extends(old, new) ==
    \/ new = old
    \/ Len(new) = Len(old) + 1 /\ SubSeq(new, 1, Len(old)) = old

\* the amount the step taken is to append to a log of u: the amount of the
\* log_water, the calories of the log_food_grams, the burned calories of the
\* log_workout being handled
AmountOf(u) ==
    IF last'.handler = "log_water" THEN ParseFloat(Split(last'.input)[2])
    ELSE IF last'.handler = "log_food_grams"
    THEN CaloriesConsumed(fsmData[u].food_cal_per_100g, ParseFloat(last'.input))
    ELSE Mul(Factor(WorkoutArgs[2]), ParseFloat(WorkoutArgs[3]))

\* the log that a handler appends to
LogOf(handler) ==
    IF handler = "log_water" THEN "water_logs"
    ELSE IF handler = "log_food_grams" THEN "food_logs"
    ELSE IF handler = "log_workout" THEN "workout_logs"
    ELSE "None"

\* C19: in every step other than a profile commit each of water_logs,
\* food_logs and workout_logs of a user is unchanged or its previous value
\* with exactly one element appended at the end, and the element appended is
\* the amount of the handler that ran in that step, so the order of a log is
\* the order in which the handlers ran.
C19_LogsAppendOnly ==
    [][\A u \in Users :
         (users[u] # None /\ users'[u] # None /\ ~Commits(u)) =>
             \A log \in {"water_logs", "food_logs", "workout_logs"} :
                 LET old == users[u][log]
                     new == users'[u][log]
                 IN /\ Extends(old, new)
                    /\ new # old =>
                           /\ last'.user = u
                           /\ last'.part = "update"
                           /\ LogOf(last'.handler) = log
                           /\ new[Len(new)] = AmountOf(u)]_vars

\* a run of 45 minutes and then one of -45 minutes, logged in that order
C19_Witness ==
    /\ last.handler = "log_workout"
    /\ users[1] # None
    /\ users[1].workout_logs = <<PyFloat(450 * Scale), PyFloat((0 - 450) * Scale)>>

\* C20: a profile that exists before a step exists after it, and every
\* profile that exists after a step has water_goal and calorie_goal defined
\* as Python numbers (an int or a float, the float NaN included), whether
\* the calorie goal was computed or typed.
C20_ProfileKeptWithGoals ==
    [][\A u \in Users :
         /\ users[u] # None => users'[u] # None
         /\ users'[u] # None =>
                /\ IsNumber(users'[u].water_goal)
                /\ IsNumber(users'[u].calorie_goal)]_vars

\* a profile committed with the typed goal 2000 is still there, with both
\* goals, after a workout was logged and the progress was asked for
C20_Witness ==
    /\ last.handler = "check_progress"
    /\ users[1] # None
    /\ users[1].calorie_goal = PyFloat(2000 * Scale)
    /\ Real(users[1].water_goal)
    /\ Len(users[1].workout_logs) = 1

\* the state before s in the order of the profile dialogue
PreviousState(s) ==
    CASE s = "height" -> "weight"
      [] s = "age" -> "height"
      [] s = "activity" -> "age"
      [] s = "city" -> "activity"
      [] s = "calorie_goal" -> "city"
      [] OTHER -> NoState

\* every collected field of a committed profile is defined
FieldsDefined(p) ==
    /\ p.weight # None /\ p.height # None /\ p.age # None
    /\ p.activity # None /\ p.city # None

\* C21: the profile dialogue advances only weight -> height -> age ->
\* activity -> city -> calorie goal, one state at a time with none skipped
\* (the weight state is entered by /set_profile), and at every profile
\* commit all five collected fields are defined.
C21_SetupInOrder ==
    [][\A u \in Users :
         /\ (fsmState'[u] # fsmState[u]
             /\ fsmState'[u] \in ProfileStates \ {"weight"}) =>
                fsmState[u] = PreviousState(fsmState'[u])
         /\ Commits(u) => FieldsDefined(users'[u])]_vars

\* C22: one traversal of the food flow appends one food event: while an
\* invocation of log_food_grams of a user is suspended at its await, before
\* the state.clear() that ends the flow, no further grams message of that
\* user adds to logged_calories and food_logs.
C22_OneEventPerFlow ==
    [][\A u \in Users :
         (Handles(u, "log_food_grams") /\ users'[u] # users[u]) =>
             ~\E i \in 1..Len(tasks) :
                 tasks[i].user = u /\ tasks[i].handler = "log_food_grams"]_vars

\* the number b is not below the number a
NotBelow(b, a) == Real(a) /\ Real(b) /\ Scaled(b) >= Scaled(a)

\* C23: no log_workout lowers burned_calories or water_goal, and a
\* log_workout whose minutes are not a number greater than 0 records no
\* workout event and leaves burned_calories and water_goal as they were.
C23_WorkoutNeverLowers ==
    [][\A u \in Users :
         (Handles(u, "log_workout") /\ users[u] # None) =>
             /\ NotBelow(users'[u].burned_calories, users[u].burned_calories)
             /\ NotBelow(users'[u].water_goal, users[u].water_goal)
             /\ (Len(WorkoutArgs) > 2 /\ ~Positive(ParseFloat(WorkoutArgs[3]))) =>
                    /\ users'[u].workout_logs = users[u].workout_logs
                    /\ users'[u].burned_calories = users[u].burned_calories
                    /\ users'[u].water_goal = users[u].water_goal]_vars

\* C24: whenever log_food_grams commits a food event, the calorie density
\* it reads from the session data is the one the user selected or entered
\* after their most recent /log_food <name>: a density of an earlier flow is
\* never used.
C24_DensityOfCurrentFlow ==
    [][\A u \in Users :
         (Handles(u, "log_food_grams") /\ users'[u] # users[u]) =>
             fsmData[u].food_cal_per_100g = last.chosen[u]]_vars

\* the suspended invocations of user u, in order
InvocationsOf(u, ts) == SelectSeq(ts, LAMBDA task : task.user = u)

\* C25: a step that handles an event of one user leaves the profile, the
\* ledger, the session state, the session data and the suspended
\* invocations of every other user as they were.
C25_OtherUsersUntouched ==
    [][\A u \in Users :
         last'.user # u =>
             /\ users'[u] = users[u]
             /\ fsmState'[u] = fsmState[u]
             /\ fsmData'[u] = fsmData[u]
             /\ InvocationsOf(u, tasks') = InvocationsOf(u, tasks)]_vars

\* user 1 has committed a profile and logged water while user 2 is in the
\* middle of the profile dialogue with a weight collected
C25_Witness ==
    /\ last.user = 1
    /\ last.handler = "log_water"
    /\ users[1] # None
    /\ Len(users[1].water_logs) = 1
    /\ fsmState[2] = "age"
    /\ fsmData[2].weight = PyFloat(70 * Scale)
    /\ users[2] = None

\* an invocation of handler of user u is suspended at pc in ts
Pending(u, handler, pc, ts) ==
    \E i \in 1..Len(ts) :
        ts[i].user = u /\ ts[i].handler = handler /\ ts[i].pc = pc

\* C26: every flow terminates under valid inputs: a calorie goal that is
\* the auto keyword or a number greater than 0 is accepted in the
\* calorie-goal state, the invocation then reaches the commit, and after its
\* reply it destroys the session; positive grams are accepted in
\* waiting_for_grams and the invocation destroys the session after its reply.
C26_ValidInputReachesIdle ==
    [][\A u \in Users :
         /\ (Handles(u, "process_calorie_goal")
             /\ (last'.input = AVTO \/ Positive(ParseFloat(last'.input)))) =>
                Pending(u, "process_calorie_goal", "get_temperature", tasks')
         /\ (Resumes(u, "process_calorie_goal", "get_temperature")
             /\ (~last'.loc.manual_goal \/ Positive(last'.loc.calorie_goal_value))) =>
                /\ users'[u] # None
                /\ Pending(u, "process_calorie_goal", "answer", tasks')
         /\ Resumes(u, "process_calorie_goal", "answer") => fsmState'[u] = NoState
         /\ (Handles(u, "log_food_grams") /\ Positive(ParseFloat(last'.input))) =>
                Pending(u, "log_food_grams", "answer", tasks')
         /\ Resumes(u, "log_food_grams", "answer") => fsmState'[u] = NoState]_vars

====
